---- MODULE Spec2Model ----
(***************************************************************************)
(* State-machine model of models.py: the perceptron, the regression        *)
(* network, the digit classifier and the recurrent language classifier,    *)
(* each with its training loop.  Real numbers are modelled by integers:    *)
(* weights and features are integer vectors, accuracies are counted in     *)
(* hundredths and learning rates in thousandths.                           *)
(***************************************************************************)
EXTENDS Integers, Sequences, FiniteSets, TLC

VARIABLES
    \* ---- PerceptronModel and the dataset it is trained on
    dims,        \* `dimensions` given to PerceptronModel.__init__
    dataset,     \* the samples of the dataset, in the order iterate_once(1) yields them
    w,           \* self.w, the weight vector
    pcP,         \* position of PerceptronModel.train: "idle", "for", "done"
    idx,         \* index of the next sample of the running for loop
    outcome,     \* the local `outcome` of train
    passMis,     \* number of misclassified samples seen in the running pass
    passes,      \* number of completed passes, counted up to MaxPasses
    score,       \* last value returned by run through get_prediction
    prediction,  \* last value returned by get_prediction (0: none yet)
    \* ---- the gradient-descent models (RegressionModel, DigitClassificationModel,
    \* ---- LanguageIDModel); `model` says which object is being trained
    model,
    numSamples,  \* number of samples of the dataset
    pc,          \* position of train: "idle", "for", "done"
    epoch,       \* number of completed passes over the dataset
    batch,       \* number of batches of the running pass already applied
    batchSize,   \* the argument of the last iterate_once call (0: none yet)
    version,     \* per parameter, the number of updates applied to it
    lastUpdate,  \* per parameter, the gradient and multiplier of its last update
    batchesDone, \* number of loop bodies executed since train was called
    queries,     \* number of get_validation_accuracy calls
    accuracy,    \* value of the last get_validation_accuracy call, in hundredths
    bestAccuracy, \* largest accuracy queried so far (-1: none yet)
    \* ---- LanguageIDModel.run on a list xs of L nodes
    xs,          \* the shapes of the nodes of xs
    pcRun,       \* position of run: "start", "loop", "returned", "raised"
    step,        \* number of elements of xs consumed
    first,       \* shape of the local `first` (the hidden state)
    result       \* shape of the returned node

varsP == <<dims, dataset, w, pcP, idx, outcome, passMis, passes, score,
          prediction>>
varsGD == <<model, numSamples, pc, epoch, batch, batchSize, version, lastUpdate,
            batchesDone, queries, accuracy, bestAccuracy>>
varsRun == <<xs, pcRun, step, first, result>>
vars == <<varsP, varsGD, varsRun>>

----------------------------------------------------------------------------
(* Bounds of the model *)

MaxSamples == 2
MaxW == 4
MaxPasses == 6
SepMax == 3

\* dimensions of the perceptron, feature values, initial weights
Dims == {1, 2}
Coord == {-1, 0, 1}
InitW == {-1, 0, 1}
Labels == {1, -1}

Vectors(d, S) == [1..d -> S]
Samples(d) == [x : Vectors(d, Coord), y : {<<l>> : l \in Labels}]
Datasets(d) == UNION {[1..n -> Samples(d)] : n \in 0..MaxSamples}

----------------------------------------------------------------------------
(* The nn primitives the perceptron uses *)

RECURSIVE Dot(_, _, _)
Dot(a, b, n) == IF n = 0 THEN 0 ELSE a[n] * b[n] + Dot(a, b, n - 1)

\* nn.DotProduct(weights, x): a node holding one number
DotProduct(a, b) == <<Dot(a, b, Len(a))>>

\* nn.as_scalar(node): the number of a node that holds exactly one number
as_scalar(node) == node[1]

\* Parameter.update(direction, multiplier): data += multiplier * direction
Update(data, direction, multiplier) ==
    [i \in DOMAIN data |-> data[i] + multiplier * direction[i]]

----------------------------------------------------------------------------
(* PerceptronModel *)

run(weights, x) == DotProduct(weights, x)

get_prediction_Strict(weights, x) ==
    IF as_scalar(run(weights, x)) > 0 THEN 1 ELSE -1

get_prediction(weights, x) ==
    IF as_scalar(run(weights, x)) >= 0 THEN 1 ELSE -1

Misclassified(weights, s) == as_scalar(s.y) # get_prediction(weights, s.x)

VisitWeights_Always(weights, s) == Update(weights, s.x, as_scalar(s.y))

\* the body of the for loop of train, on sample s
VisitWeights(weights, s) ==
    IF Misclassified(weights, s)
    THEN Update(weights, s.x, as_scalar(s.y))
    ELSE weights

VisitOutcome_Kept(out, weights, s) == out

VisitOutcome(out, weights, s) ==
    IF Misclassified(weights, s) THEN FALSE ELSE out

Breaks_Negated(out) == ~out

\* `if outcome: break`
Breaks(out) == out

\* some weight vector v and bias b / 2 put every sample strictly on the side
\* of its label: y * (v . x + b / 2) > 0
LinearlySeparable(ds) ==
    \E v \in Vectors(dims, -SepMax..SepMax), b \in -SepMax..SepMax :
        \A i \in DOMAIN ds :
            as_scalar(ds[i].y) * (2 * Dot(v, ds[i].x, dims) + b) > 0

\* the same with the bias 0: a separating hyperplane through the origin
SeparableThroughOrigin(ds) ==
    \E v \in Vectors(dims, -SepMax..SepMax) :
        \A i \in DOMAIN ds : as_scalar(ds[i].y) * Dot(v, ds[i].x, dims) > 0

InRange(weights) == \A i \in DOMAIN weights : weights[i] \in -MaxW..MaxW

InitP ==
    /\ dims \in Dims
    /\ dataset \in Datasets(dims)
    /\ w \in Vectors(dims, InitW)
    /\ pcP = "idle"
    /\ idx = 0
    /\ outcome = TRUE
    /\ passMis = 0
    /\ passes = 0
    /\ score = 0
    /\ prediction = 0

\* a call of get_prediction(x) on the trained model
P_Predict ==
    /\ pcP = "done"
    /\ \E x \in Vectors(dims, Coord) :
          /\ score' = as_scalar(run(w, x))
          /\ prediction' = get_prediction(w, x)
    /\ UNCHANGED <<dims, dataset, w, pcP, idx, outcome, passMis, passes>>
    /\ UNCHANGED <<varsGD, varsRun>>

\* train is called: `while True: outcome = True`, the for loop starts
P_Train ==
    /\ pcP = "idle"
    /\ pcP' = "for"
    /\ outcome' = TRUE
    /\ idx' = 1
    /\ passMis' = 0
    /\ UNCHANGED <<dims, dataset, w, passes, score, prediction>>
    /\ UNCHANGED <<varsGD, varsRun>>

\* one iteration of `for x, y in dataset.iterate_once(1)`
P_Visit ==
    /\ pcP = "for"
    /\ idx <= Len(dataset)
    /\ LET s == dataset[idx] IN
          /\ InRange(VisitWeights(w, s))
          /\ w' = VisitWeights(w, s)
          /\ outcome' = VisitOutcome(outcome, w, s)
          /\ passMis' = passMis + (IF Misclassified(w, s) THEN 1 ELSE 0)
          /\ score' = as_scalar(run(w, s.x))
          /\ prediction' = get_prediction(w, s.x)
    /\ idx' = idx + 1
    /\ UNCHANGED <<dims, dataset, pcP, passes>>
    /\ UNCHANGED <<varsGD, varsRun>>

\* the for loop is exhausted: `if outcome: break`, else the next pass starts
P_EndPass ==
    /\ pcP = "for"
    /\ idx > Len(dataset)
    /\ IF Breaks(outcome)
       THEN /\ pcP' = "done"
            /\ UNCHANGED <<outcome, idx, passMis>>
       ELSE /\ pcP' = "for"
            /\ outcome' = TRUE
            /\ idx' = 1
            /\ passMis' = 0
    /\ passes' = IF passes < MaxPasses THEN passes + 1 ELSE passes
    /\ UNCHANGED <<dims, dataset, w, score, prediction>>
    /\ UNCHANGED <<varsGD, varsRun>>

----------------------------------------------------------------------------
(* The gradient-descent models: RegressionModel, DigitClassificationModel,  *)
(* LanguageIDModel                                                          *)

MaxBatches == 2
MaxEpochs == 3

Models == {"regression", "digit", "language"}

\* values get_validation_accuracy may return, in hundredths
AccValues == {50, 81, 82, 96, 97, 100}

\* dataset sizes: whole numbers of batches for both batch sizes in use
DatasetSizes == {10 * k : k \in 0..MaxBatches}

RegressionBatchSize == 10
RegressionEpochs_OffByOne == 1000 - 1
RegressionEpochs == 1000
RegressionLearningRate == -20
RegressionParameters == <<"weight1", "weight2", "bias1", "bias2">>
RegressionUpdates ==
    << [param |-> "weight1", grad |-> 0], [param |-> "weight2", grad |-> 1],
       [param |-> "bias1", grad |-> 2], [param |-> "bias2", grad |-> 3] >>

DigitBatchSize == 10
DigitEpochs_OffByOne == 2000 - 1
DigitEpochs == 2000
DigitLearningRate == -20
DigitThreshold == 97
DigitParameters == <<"weight1", "weight2", "bias1", "bias2">>
DigitUpdates_Swapped ==
    << [param |-> "weight1", grad |-> 0], [param |-> "weight2", grad |-> 2],
       [param |-> "bias1", grad |-> 1], [param |-> "bias2", grad |-> 3] >>
DigitUpdates ==
    << [param |-> "weight1", grad |-> 0], [param |-> "weight2", grad |-> 1],
       [param |-> "bias1", grad |-> 2], [param |-> "bias2", grad |-> 3] >>

LanguageBatchSize == 2
LanguageLearningRate == -5
LanguageThreshold_Digit == DigitThreshold
LanguageThreshold == 82
LanguageParameters == <<"weight", "weight_h", "weight_f">>
LanguageUpdates ==
    << [param |-> "weight", grad |-> 0], [param |-> "weight_h", grad |-> 1],
       [param |-> "weight_f", grad |-> 2] >>

\* the nn.Parameter attributes each constructor creates
ParamsOf(m) ==
    IF m = "language" THEN {"weight", "weight_h", "weight_f"}
    ELSE {"weight1", "bias1", "weight2", "bias2"}

\* dataset.iterate_once(batch_size): the number of batches that cover a
\* dataset of n samples once
IterateOnce(n, batch_size) == (n + batch_size - 1) \div batch_size

\* nn.gradients(loss, parameters): one gradient per listed parameter, in the
\* order of the list; `at` is the value (version) of every parameter the loss
\* was computed from
Gradients(at, parameters) ==
    [k \in 1..Len(parameters) |-> [wrt |-> parameters[k], at |-> at]]

\* the parameter.update(gradients[i], self.learning_rate) statements of one
\* loop body, in program order; st = [version, lastUpdate]
RECURSIVE ApplyUpdates(_, _, _, _, _)
ApplyUpdates(st, gradients, updates, learning_rate, n) ==
    IF n = 0 THEN st
    ELSE LET prev == ApplyUpdates(st, gradients, updates, learning_rate, n - 1)
             u == updates[n]
         IN [version |-> [prev.version EXCEPT ![u.param] = @ + 1],
             lastUpdate |-> [prev.lastUpdate EXCEPT ![u.param] =
                  [gradient |-> gradients[u.grad + 1],
                   multiplier |-> learning_rate]]]

\* the body of the batch loop: gradients first, then the updates
TrainBatch(st, parameters, updates, learning_rate) ==
    ApplyUpdates(st, Gradients(st.version, parameters), updates,
                 learning_rate, Len(updates))

Reached_Strict(acc, threshold) == acc > threshold

\* `if dataset.get_validation_accuracy() >= threshold: return`
Reached(acc, threshold) == acc >= threshold

NoUpdate == [gradient |-> [wrt |-> "none", at |-> <<>>], multiplier |-> 0]

InitGD ==
    /\ model \in Models
    /\ numSamples \in DatasetSizes
    /\ pc = "idle"
    /\ epoch = 0
    /\ batch = 0
    /\ batchSize = 0
    /\ version = [p \in ParamsOf(model) |-> 0]
    /\ lastUpdate = [p \in ParamsOf(model) |-> NoUpdate]
    /\ batchesDone = 0
    /\ queries = 0
    /\ accuracy = 0
    /\ bestAccuracy = -1

\* number of batches the running for loop yields
Batches == IterateOnce(numSamples, batchSize)

\* train is called: the first `for x, y in dataset.iterate_once(...)` starts
R_Train ==
    /\ model = "regression"
    /\ pc = "idle"
    /\ pc' = "for"
    /\ batchSize' = RegressionBatchSize
    /\ UNCHANGED <<model, numSamples, epoch, batch, version, lastUpdate,
                   batchesDone, queries, accuracy, bestAccuracy>>
    /\ UNCHANGED <<varsP, varsRun>>

\* one iteration of the batch loop: the gradients, then the updates
R_Batch ==
    /\ model = "regression"
    /\ pc = "for"
    /\ batch < Batches
    /\ LET st == TrainBatch([version |-> version, lastUpdate |-> lastUpdate],
                            RegressionParameters, RegressionUpdates,
                            RegressionLearningRate)
       IN /\ version' = st.version
          /\ lastUpdate' = st.lastUpdate
    /\ batch' = batch + 1
    /\ batchesDone' = batchesDone + 1
    /\ UNCHANGED <<model, numSamples, pc, epoch, batchSize, queries, accuracy,
                   bestAccuracy>>
    /\ UNCHANGED <<varsP, varsRun>>

\* the inner loop is exhausted: next i of `for i in range(1000)`, or return
R_EndEpoch ==
    /\ model = "regression"
    /\ pc = "for"
    /\ batch = Batches
    /\ epoch' = epoch + 1
    /\ batch' = 0
    /\ pc' = IF epoch + 1 < RegressionEpochs THEN "for" ELSE "done"
    /\ UNCHANGED <<model, numSamples, batchSize, version, lastUpdate,
                   batchesDone, queries, accuracy, bestAccuracy>>
    /\ UNCHANGED <<varsP, varsRun>>

\* train is called: the first `for x, y in dataset.iterate_once(...)` starts
D_Train ==
    /\ model = "digit"
    /\ pc = "idle"
    /\ pc' = "for"
    /\ batchSize' = DigitBatchSize
    /\ UNCHANGED <<model, numSamples, epoch, batch, version, lastUpdate,
                   batchesDone, queries, accuracy, bestAccuracy>>
    /\ UNCHANGED <<varsP, varsRun>>

\* one iteration of the batch loop: the gradients, then the updates
D_Batch ==
    /\ model = "digit"
    /\ pc = "for"
    /\ batch < Batches
    /\ LET st == TrainBatch([version |-> version, lastUpdate |-> lastUpdate],
                            DigitParameters, DigitUpdates,
                            DigitLearningRate)
       IN /\ version' = st.version
          /\ lastUpdate' = st.lastUpdate
    /\ batch' = batch + 1
    /\ batchesDone' = batchesDone + 1
    /\ UNCHANGED <<model, numSamples, pc, epoch, batchSize, queries, accuracy,
                   bestAccuracy>>
    /\ UNCHANGED <<varsP, varsRun>>

\* the inner loop is exhausted: the accuracy check, then return, the next i of
\* `for i in range(2000)`, or the end of the outer loop
D_EndEpoch ==
    /\ model = "digit"
    /\ pc = "for"
    /\ batch = Batches
    /\ \E acc \in AccValues :
          /\ accuracy' = acc
          /\ bestAccuracy' = IF acc > bestAccuracy THEN acc ELSE bestAccuracy
          /\ pc' = IF Reached(acc, DigitThreshold) THEN "done"
                   ELSE IF epoch + 1 < DigitEpochs THEN "for" ELSE "done"
    /\ queries' = queries + 1
    /\ epoch' = epoch + 1
    /\ batch' = 0
    /\ UNCHANGED <<model, numSamples, batchSize, version, lastUpdate,
                   batchesDone>>
    /\ UNCHANGED <<varsP, varsRun>>

\* train is called: the first `for x, y in dataset.iterate_once(...)` starts
L_Train ==
    /\ model = "language"
    /\ pc = "idle"
    /\ pc' = "for"
    /\ batchSize' = LanguageBatchSize
    /\ UNCHANGED <<model, numSamples, epoch, batch, version, lastUpdate,
                   batchesDone, queries, accuracy, bestAccuracy>>
    /\ UNCHANGED <<varsP, varsRun>>

\* one iteration of the batch loop: the gradients, then the updates
L_Batch ==
    /\ model = "language"
    /\ pc = "for"
    /\ batch < Batches
    /\ LET st == TrainBatch([version |-> version, lastUpdate |-> lastUpdate],
                            LanguageParameters, LanguageUpdates,
                            LanguageLearningRate)
       IN /\ version' = st.version
          /\ lastUpdate' = st.lastUpdate
    /\ batch' = batch + 1
    /\ batchesDone' = batchesDone + 1
    /\ UNCHANGED <<model, numSamples, pc, epoch, batchSize, queries, accuracy,
                   bestAccuracy>>
    /\ UNCHANGED <<varsP, varsRun>>

\* the inner loop is exhausted: the accuracy check, then return or the next
\* round of `while True`
L_EndEpoch ==
    /\ model = "language"
    /\ pc = "for"
    /\ batch = Batches
    /\ epoch < MaxEpochs
    /\ \E acc \in AccValues :
          /\ accuracy' = acc
          /\ bestAccuracy' = IF acc > bestAccuracy THEN acc ELSE bestAccuracy
          /\ pc' = IF Reached(acc, LanguageThreshold) THEN "done" ELSE "for"
    /\ queries' = queries + 1
    /\ epoch' = epoch + 1
    /\ batch' = 0
    /\ UNCHANGED <<model, numSamples, batchSize, version, lastUpdate,
                   batchesDone>>
    /\ UNCHANGED <<varsP, varsRun>>

----------------------------------------------------------------------------
(* LanguageIDModel.run: the shapes of the nodes it builds *)

MaxLen == 6
MaxBatch == 4

num_chars == 47
hidden == 300
dimension == 5

\* shapes of self.weight, self.weight_h, self.weight_f
weight == [op |-> "Parameter", shape |-> <<num_chars, hidden>>]
weight_h_Narrow == [op |-> "Parameter", shape |-> <<hidden, dimension>>]
weight_h == [op |-> "Parameter", shape |-> <<hidden, hidden>>]
weight_f == [op |-> "Parameter", shape |-> <<hidden, dimension>>]

\* a node whose construction raised
Raised == [op |-> "Raised", shape |-> <<>>]

\* nn.Linear(features, weights): (batch x in) times (in x out)
Linear(features, weights) ==
    IF /\ features # Raised
       /\ weights # Raised
       /\ features.shape[2] = weights.shape[1]
    THEN [op |-> "Linear", shape |-> <<features.shape[1], weights.shape[2]>>]
    ELSE Raised

\* nn.Add(x, y): element-wise sum of two nodes of the same shape
Add(x, y) ==
    IF x # Raised /\ y # Raised /\ x.shape = y.shape
    THEN [op |-> "Add", shape |-> x.shape]
    ELSE Raised

\* nn.ReLU(x): element-wise, keeps the shape
ReLU(x) == IF x # Raised THEN [op |-> "ReLU", shape |-> x.shape] ELSE Raised

\* `first = nn.Linear(xs[0], self.weight)`
RunFirst(node) == Linear(node, weight)

\* the body of `for node in xs[1:]`
RunStep(node, prev) == ReLU(Add(Linear(node, weight), Linear(prev, weight_h)))

\* `return nn.Linear(first, self.weight_f)`
RunReturn(prev) == Linear(prev, weight_f)

Input(bs) == [op |-> "Input", shape |-> <<bs, num_chars>>]

InitRun ==
    /\ \E L \in 0..MaxLen, bs \in 1..MaxBatch : xs = [i \in 1..L |-> Input(bs)]
    /\ pcRun = "start"
    /\ step = 0
    /\ first = Raised
    /\ result = Raised

\* xs[0] raises IndexError on an empty list
Run_First ==
    /\ pcRun = "start"
    /\ IF Len(xs) = 0
       THEN pcRun' = "raised" /\ UNCHANGED <<step, first>>
       ELSE /\ first' = RunFirst(xs[1])
            /\ step' = 1
            /\ pcRun' = IF RunFirst(xs[1]) = Raised THEN "raised" ELSE "loop"
    /\ UNCHANGED <<xs, result>>
    /\ UNCHANGED <<varsP, varsGD>>

Run_Step ==
    /\ pcRun = "loop"
    /\ step < Len(xs)
    /\ first' = RunStep(xs[step + 1], first)
    /\ step' = step + 1
    /\ pcRun' = IF RunStep(xs[step + 1], first) = Raised THEN "raised" ELSE "loop"
    /\ UNCHANGED <<xs, result>>
    /\ UNCHANGED <<varsP, varsGD>>

Run_Return ==
    /\ pcRun = "loop"
    /\ step = Len(xs)
    /\ result' = RunReturn(first)
    /\ pcRun' = IF RunReturn(first) = Raised THEN "raised" ELSE "returned"
    /\ UNCHANGED <<xs, step, first>>
    /\ UNCHANGED <<varsP, varsGD>>

----------------------------------------------------------------------------
(* Specifications: one per object under study; the variables of the others  *)
(* keep their initial value                                                 *)

RestP ==
    /\ dims = 1
    /\ dataset = <<>>
    /\ w = [i \in 1..1 |-> 0]
    /\ pcP = "idle"
    /\ idx = 0
    /\ outcome = TRUE
    /\ passMis = 0
    /\ passes = 0
    /\ score = 0
    /\ prediction = 0

RestGD ==
    /\ model = "regression"
    /\ numSamples = 0
    /\ pc = "idle"
    /\ epoch = 0
    /\ batch = 0
    /\ batchSize = 0
    /\ version = [p \in ParamsOf("regression") |-> 0]
    /\ lastUpdate = [p \in ParamsOf("regression") |-> NoUpdate]
    /\ batchesDone = 0
    /\ queries = 0
    /\ accuracy = 0
    /\ bestAccuracy = -1

RestRun ==
    /\ xs = <<>>
    /\ pcRun = "start"
    /\ step = 0
    /\ first = Raised
    /\ result = Raised

NextP ==
    \/ P_Predict
    \/ P_Train
    \/ P_Visit
    \/ P_EndPass

NextGD ==
    \/ R_Train
    \/ R_Batch
    \/ R_EndEpoch
    \/ D_Train
    \/ D_Batch
    \/ D_EndEpoch
    \/ L_Train
    \/ L_Batch
    \/ L_EndEpoch

NextRun ==
    \/ Run_First
    \/ Run_Step
    \/ Run_Return

InitPerceptron == InitP /\ RestGD /\ RestRun
InitGradient == InitGD /\ RestP /\ RestRun
InitLanguageRun == InitRun /\ RestP /\ RestGD

SpecP == InitPerceptron /\ [][NextP]_vars
SpecGD == InitGradient /\ [][NextGD]_vars
SpecRun == InitLanguageRun /\ [][NextRun]_vars

\* train runs on the calling thread until it returns: every enabled step of
\* a running loop is eventually taken
FairSpecP == SpecP /\ WF_vars(P_Visit) /\ WF_vars(P_EndPass)
FairSpecGD ==
    /\ SpecGD
    /\ WF_vars(R_Batch) /\ WF_vars(R_EndEpoch)
    /\ WF_vars(D_Batch) /\ WF_vars(D_EndEpoch)
    /\ WF_vars(L_Batch) /\ WF_vars(L_EndEpoch)

----------------------------------------------------------------------------
(* Properties of PerceptronModel *)

\* the for loop of train is at a sample that the weights misclassify
AtMisclassified ==
    /\ pcP = "for"
    /\ idx <= Len(dataset)
    /\ as_scalar(dataset[idx].y) # get_prediction(w, dataset[idx].x)

\* a pass over the dataset has just been completed
PassCompleted == pcP = "done" \/ (pcP = "for" /\ idx > Len(dataset))

\* the weights classify every sample of the dataset as labelled
AllCorrect ==
    \A i \in DOMAIN dataset :
        as_scalar(dataset[i].y) = get_prediction(w, dataset[i].x)

\* C1 as stated: on every linearly separable dataset a started train returns,
\* and the last pass before it returns misclassifies no sample.
C1_Original ==
    /\ LinearlySeparable(dataset) => ((pcP = "for") ~> (pcP = "done"))
    /\ [](pcP = "done" => passMis = 0 /\ AllCorrect)

\* a running train that cannot take its next step, or that has completed
\* MaxPasses passes without returning
Stuck ==
    /\ pcP = "for"
    /\ \/ passes >= MaxPasses
       \/ idx <= Len(dataset) /\ ~InRange(VisitWeights(w, dataset[idx]))

\* C1 amended: on every dataset that a hyperplane through the origin separates
\* strictly, and from every initial weight vector, a started train returns
\* (here: it always has a next step and returns within MaxPasses passes); and
\* whenever train has returned, the last pass misclassified no sample and the
\* weights classify every sample as labelled.
C1_TerminatesWhenSeparableThroughOrigin ==
    /\ Stuck => ~SeparableThroughOrigin(dataset)
    /\ pcP = "done" => passMis = 0 /\ AllCorrect

\* the same termination as a liveness property, under FairSpecP
C1_EventuallyReturns ==
    SeparableThroughOrigin(dataset) => ((pcP = "for") ~> (pcP = "done"))

C1_Witness ==
    /\ pcP = "done"
    /\ passes >= 3
    /\ Len(dataset) >= 2
    /\ SeparableThroughOrigin(dataset)

\* C2: get_prediction returns +1 exactly when the score of run is >= 0 and
\* -1 otherwise; a score of 0 gives +1.
C2_PredictionConsistent ==
    prediction # 0 =>
        /\ prediction \in {1, -1}
        /\ prediction = 1 <=> score >= 0
        /\ prediction = -1 <=> score < 0

C2_Witness == prediction = 1 /\ score = 0 /\ pcP = "done" /\ passes >= 1

\* C3: a step that visits a misclassified sample (x, y) turns the weights w
\* into w + y * x; every other step leaves the weights unchanged.
C3_UpdateRule ==
    [][IF AtMisclassified
       THEN w' = [i \in 1..dims |->
                    w[i] + as_scalar(dataset[idx].y) * dataset[idx].x[i]]
       ELSE w' = w]_vars

C3_Witness == pcP = "for" /\ passMis >= 1 /\ passes >= 1

\* C9: train returns only on a linearly separable dataset: on any other
\* dataset every completed pass has seen a misclassified sample, leaves
\* outcome false and so starts another pass.
C9_NonSeparableNeverTerminates ==
    /\ pcP = "for" => (outcome <=> passMis = 0)
    /\ (PassCompleted /\ ~(pcP = "for" /\ passMis >= 1 /\ ~outcome)) =>
           LinearlySeparable(dataset)

C9_Witness ==
    /\ pcP = "for"
    /\ idx > Len(dataset)
    /\ passes >= 2
    /\ passMis >= 1
    /\ ~LinearlySeparable(dataset)

----------------------------------------------------------------------------
(* Properties of the training loops of the gradient-descent models *)

\* every loop body executed so far belongs to a completed pass or to the
\* running one: `size` samples per batch, `epoch` passes completed
WholePasses(size) ==
    /\ batchSize = size
    /\ batch <= numSamples \div size
    /\ batchesDone = epoch * (numSamples \div size) + batch

\* C4: DigitClassificationModel.train runs at most 2000 epochs and then
\* returns; it asks for the validation accuracy exactly once per completed
\* epoch, after all batches of that epoch; it returns at the first epoch whose
\* accuracy is >= 0.97 and at no earlier point, and runs nothing after it.
C4_DigitStopsAtThresholdOrCap ==
    (model = "digit" /\ pc # "idle") =>
        /\ WholePasses(10)
        /\ queries = epoch
        /\ epoch <= 2000
        /\ pc = "for" => epoch < 2000 /\ bestAccuracy < 97
        /\ pc = "done" =>
              /\ batch = 0
              /\ \/ accuracy >= 97 /\ accuracy = bestAccuracy
                 \/ epoch = 2000 /\ bestAccuracy < 97

C4_Witness ==
    /\ model = "digit"
    /\ pc = "done"
    /\ accuracy = 97
    /\ epoch = 3
    /\ batchesDone = 3 * MaxBatches
    /\ MaxBatches >= 2

\* the epochs of a started DigitClassificationModel.train come to an end
C4_EventuallyReturns ==
    (model = "digit" /\ pc = "for") ~> (pc = "done")

\* C5 as stated: while every accuracy queried so far is below the threshold,
\* neither the digit loop nor the language loop returns.
C5_Original ==
    /\ (model = "digit" /\ bestAccuracy < 97) => pc # "done"
    /\ (model = "language" /\ bestAccuracy < 82) => pc # "done"

\* C5 amended: while every accuracy queried so far is below the threshold,
\* the language loop does not return, and the digit loop returns exactly
\* when its 2000th epoch is complete.
C5_OnlyLanguageLoopsForever ==
    /\ (model = "language" /\ bestAccuracy < 82) => pc # "done"
    /\ (model = "digit" /\ bestAccuracy < 97 /\ pc # "idle") =>
           (pc = "done" <=> epoch = 2000)

C5_Witness ==
    /\ model = "digit"
    /\ pc = "done"
    /\ bestAccuracy < 97
    /\ queries = 2000
    /\ batchesDone = 2000 * MaxBatches

\* C6: RegressionModel.train makes exactly 1000 passes in batches of 10 and
\* then returns; it never asks for an accuracy, and every batch of every pass
\* has updated each of the four parameters once.
C6_RegressionRunsAllEpochs ==
    (model = "regression" /\ pc # "idle") =>
        /\ WholePasses(10)
        /\ queries = 0
        /\ pc = "done" <=> epoch = 1000
        /\ pc = "done" => batch = 0
        /\ DOMAIN version = {"weight1", "bias1", "weight2", "bias2"}
        /\ \A p \in DOMAIN version : version[p] = batchesDone

C6_Witness ==
    /\ model = "regression"
    /\ pc = "done"
    /\ batchesDone = 1000 * MaxBatches
    /\ MaxBatches >= 2

\* the 1000 epochs of a started RegressionModel.train come to an end
C6_EventuallyReturns ==
    (model = "regression" /\ pc = "for") ~> (pc = "done")

\* C7: LanguageIDModel.train passes over the dataset in batches of 2, asks for
\* the accuracy exactly once per completed pass, and has returned exactly when
\* the accuracy of the last completed pass is >= 0.82, which is then the first
\* such pass; no number of passes makes it return otherwise.
C7_LanguageStopsOnlyAtThreshold ==
    (model = "language" /\ pc # "idle") =>
        /\ WholePasses(2)
        /\ queries = epoch
        /\ pc = "done" <=> (queries >= 1 /\ accuracy >= 82)
        /\ pc = "done" <=> bestAccuracy >= 82
        /\ pc = "done" => batch = 0 /\ accuracy = bestAccuracy

C7_Witness ==
    /\ model = "language"
    /\ pc = "done"
    /\ accuracy = 82
    /\ epoch = MaxEpochs
    /\ batchesDone = MaxEpochs * 5 * MaxBatches
    /\ MaxBatches >= 1

\* the multiplier each model passes to update, in thousandths
FixedLearningRate ==
    CASE model = "regression" -> -20
      [] model = "digit" -> -20
      [] model = "language" -> -5

\* C10: after every batch each parameter of the model has been updated
\* exactly once per batch, the last time with the model's learning rate and
\* with the gradient taken with respect to that same parameter, computed from
\* the parameter values as they were before any update of that batch.
C10_GradientsMatchParameters ==
    \A p \in DOMAIN version :
        /\ version[p] = batchesDone
        /\ batchesDone >= 1 =>
              /\ lastUpdate[p].gradient.wrt = p
              /\ lastUpdate[p].gradient.at =
                     [q \in DOMAIN version |-> batchesDone - 1]
              /\ lastUpdate[p].multiplier = FixedLearningRate

C10_Witness ==
    /\ model = "digit"
    /\ batchesDone >= 2
    /\ lastUpdate["bias1"].gradient.wrt = "bias1"

----------------------------------------------------------------------------
(* Properties of LanguageIDModel.run *)

\* C8: on a list of L >= 1 nodes of shape (batch_size x 47) run raises nowhere;
\* the hidden state has shape (batch_size x 300) after every step, the result
\* of a Linear after step 0 and of a ReLU after every later step, and the
\* returned node has shape (batch_size x 5).
C8_RunShapes ==
    Len(xs) >= 1 =>
        /\ pcRun # "raised"
        /\ pcRun \in {"loop", "returned"} =>
              /\ first.shape = <<xs[1].shape[1], 300>>
              /\ first.op = IF step = 1 THEN "Linear" ELSE "ReLU"
        /\ pcRun = "returned" =>
              /\ step = Len(xs)
              /\ result.op = "Linear"
              /\ result.shape = <<xs[1].shape[1], 5>>

C8_Witness ==
    /\ pcRun = "returned"
    /\ Len(xs) >= 3
    /\ result.shape = <<2, 5>>

====
